---- MODULE Spec2Model ----
(***************************************************************************)
(* A model of ctagsplugin.py, the Sublime Text CTags plugin: the JumpBack  *)
(* navigation history, the on_load continuation of a jump into a file that *)
(* is still loading, and the threaded RebuildTags worker with the          *)
(* ShowSymbols cache it invalidates.                                       *)
(***************************************************************************)
EXTENDS Integers, Sequences, FiniteSets, TLC

VARIABLES
    last,       \* JumpBack.last: the jump-history, oldest first
    mods,       \* JumpBack.mods: the modification-history, most recent first
    njump,      \* number of entries ever appended to JumpBack.last
    nmod,       \* number of stamped entries ever inserted in JumpBack.mods
    op,         \* the handler that ran last
    cur,        \* the active view that handler saw (file name and selection)
    jumped,     \* the file and region the last handler selected, or NoJump
    status,     \* the status message (or the exception) of the last handler
    views,      \* per file: "closed", "loading" or "loaded"
    callbacks,  \* ON_LOAD: the registered set_on_load instances, in order
    ncb,        \* number of set_on_load instances ever created
    fired,      \* log of the runs of wrapped() made from set_on_load.on_load
    catches,    \* whether the host catches an exception of an on_load callback
    running,    \* build_ctags.running, the flag of the threaded decorator
    threads,    \* the worker threads started by the decorator, with their position
    timeouts,   \* the callbacks queued with sublime.set_timeout, oldest first
    tags_cache, \* tags_cache[root][key], the symbols ShowSymbols has loaded
    tagfiles,   \* per directory: the build that wrote its index file, 0 for none
    nbuilds,    \* number of index files written so far
    nruns,      \* number of rebuilds the decorator has started
    folders,    \* window.folders(), the open project folders
    req,        \* the arguments and view of the last rebuild_tags command
    dialog,     \* how the last failed build was reported: error_message or traceback
    ctags_list, \* GetAllCTagsList.ctags_list, the cached autocomplete list
    lastQuery,  \* what the last ShowSymbols read and returned
    disk,       \* the files besides the index files of tagfiles, and their content
    lookup,     \* what the last symbol lookup scanned, found and offers in the panel
    buffer,     \* the buffer of the view a tag is located in: characters and scopes
    found,      \* the last tag-path resolution: its arguments, regions and result
    frame,      \* the call of find_with_scope in progress: arguments and locals
    host,       \* the host's Region: whether an empty Region is false
    listing     \* the show_symbols request in progress: arguments, nesting, outcome

navVars == <<last, mods, njump, nmod, cur, jumped>>
loadVars == <<views, callbacks, ncb, fired, catches>>
rebuildVars == <<running, threads, timeouts, tags_cache, tagfiles, nbuilds, nruns, folders,
                 req, dialog, ctags_list, lastQuery>>
lookupVars == <<disk, lookup>>
scrollVars == <<buffer, found, frame, host, listing>>
vars == <<op, status, navVars, loadVars, rebuildVars, lookupVars, scrollVars>>

(***************************************************************************)
(* Bounds and program constants                                            *)
(***************************************************************************)
MaxJumps == 2
MaxModPush == 3
MaxExamplePush == 5

ModAreaWidth == 40
ModsLimit == 100
\* enough edits to fill the modification-history and overflow it
EditsForCap == ModsLimit + 2

None == "None"
Files == {"f", "g"}

Abs(x) == IF x < 0 THEN -x ELSE x
Min(S) == CHOOSE x \in S : \A y \in S : x <= y

(***************************************************************************)
(* sublime.Region, its repr "(a, b)" and the eval of that text to a tuple  *)
(***************************************************************************)
Region(a, b) == [a |-> a, b |-> b]
repr(region) == <<"(", region.a, ",", region.b, ")">>
eval(text) == <<text[2], text[4]>>
RegionOf(sel) == Region(sel[1], sel[2])

\* a view as a handler sees it: file_name() and sel(), a list of regions
View(fn, regions) == [f |-> fn, sel |-> regions]
Caret(fn, p) == View(fn, <<Region(p, p)>>)

\* a history entry (file, repr(region)); t is the push stamp, kept for the
\* ordering properties only
Entry(fn, text, t) == [f |-> fn, r |-> text, t |-> t]

NoJump == [f |-> "-", sel |-> Region(-1, -1)]

(***************************************************************************)
(* on_load(path)(f): open the file and run the continuation, at once or    *)
(* from a set_on_load callback when the view is still loading              *)
(***************************************************************************)
open_file(vs, path) == [vs EXCEPT ![path] = IF @ = "closed" THEN "loading" ELSE @]

on_load(path, sel) ==
    IF path = None
    THEN /\ jumped' = [f |-> None, sel |-> RegionOf(sel)]
         /\ UNCHANGED <<views, callbacks, ncb>>
    ELSE /\ views' = open_file(views, path)
         /\ IF views'[path] = "loading"
            THEN /\ callbacks' = Append(callbacks,
                                   [id |-> ncb + 1, f |-> path, sel |-> RegionOf(sel)])
                 /\ ncb' = ncb + 1
                 /\ jumped' = NoJump
            ELSE /\ jumped' = [f |-> path, sel |-> RegionOf(sel)]
                 /\ UNCHANGED <<callbacks, ncb>>

jump(fn, sel) == on_load(fn, sel)

(***************************************************************************)
(* JumpBack                                                                *)
(***************************************************************************)
different_mod_area(f1, f2, r1, r2) ==
    LET same_file == f1 = f2
        same_region == Abs(r1[1] - r2[1]) < ModAreaWidth
    IN  ~same_file \/ ~same_region

is_enabled(to) ==
    IF to = "last_modification" THEN Len(mods) > 1 ELSE Len(last) > 0

\* append with the entry put at the front of the list
append_front(ls, view, t) ==
    IF view.f # None THEN <<Entry(view.f, repr(view.sel[1]), t)>> \o ls ELSE ls

\* JumpBack.append(view)
append(ls, view, t) ==
    IF view.f # None THEN Append(ls, Entry(view.f, repr(view.sel[1]), t)) ELSE ls

\* on_modified without the del JumpBack.mods[100:]
on_modified_untruncated(ms, view, t) ==
    IF Len(view.sel) > 0 THEN <<Entry(view.f, repr(view.sel[1]), t)>> \o ms ELSE ms

\* JumpBackListener.on_modified(view)
on_modified(ms, view, t) ==
    IF Len(view.sel) > 0
    THEN LET inserted == <<Entry(view.f, repr(view.sel[1]), t)>> \o ms
         IN  SubSeq(inserted, 1, IF Len(inserted) < ModsLimit THEN Len(inserted) ELSE ModsLimit)
    ELSE ms

\* the loop of lastModifications running on to the last entry in another area
LoopExit_last(rest, sf, sr) ==
    LET D == {k \in 1..Len(rest) : different_mod_area(sf, rest[k].f, sr, eval(rest[k].r))}
    IN  IF D = {} THEN Len(rest) ELSE CHOOSE x \in D : \A y \in D : y <= x

\* the index (from 1) of the entry the for loop of lastModifications stops at:
\* the first entry in another modification area than (sf, sr), or else the last
LoopExit(rest, sf, sr) ==
    LET D == {k \in 1..Len(rest) : different_mod_area(sf, rest[k].f, sr, eval(rest[k].r))}
    IN  IF D = {} THEN Len(rest) ELSE Min(D)

\* lastModifications with the test of in_different_mod_area inverted
lastModifications_swapped(ms, cv) ==
    LET cr == eval(repr(cv.sel[1]))
        s == Head(ms)
        rest == Tail(ms)
    IN  IF s.f = None
        THEN [mods |-> rest, jump |-> FALSE, jf |-> None, jr |-> <<0, 0>>]
        ELSE LET sr == eval(s.r)
                 inside == ~different_mod_area(s.f, cv.f, cr, sr)
                 i == LoopExit(rest, s.f, sr)
                 kept == IF rest # <<>> THEN SubSeq(rest, i, Len(rest)) ELSE rest
                 j == IF rest # <<>> /\ ~inside THEN rest[i] ELSE s
                 final == IF inside \/ kept = <<>>
                          THEN <<Entry(j.f, repr(RegionOf(eval(j.r))), j.t)>> \o kept
                          ELSE kept
             IN  [mods |-> final, jump |-> TRUE, jf |-> j.f, jr |-> eval(j.r)]

\* lastModifications with the starting entry re-inserted at the end
lastModifications_reinsert_last(ms, cv) ==
    LET cr == eval(repr(cv.sel[1]))
        s == Head(ms)
        rest == Tail(ms)
    IN  IF s.f = None
        THEN [mods |-> rest, jump |-> FALSE, jf |-> None, jr |-> <<0, 0>>]
        ELSE LET sr == eval(s.r)
                 outside == different_mod_area(s.f, cv.f, cr, sr)
                 i == LoopExit(rest, s.f, sr)
                 kept == IF rest # <<>> THEN SubSeq(rest, i, Len(rest)) ELSE rest
                 j == IF rest # <<>> /\ ~outside THEN rest[i] ELSE s
                 final == IF outside \/ kept = <<>>
                          THEN Append(kept, Entry(j.f, repr(RegionOf(eval(j.r))), j.t))
                          ELSE kept
             IN  [mods |-> final, jump |-> TRUE, jf |-> j.f, jr |-> eval(j.r)]

\* JumpBack.lastModifications with the active view cv; the history it leaves
\* and the entry it jumps to (jump = FALSE: it returns without a jump)
lastModifications(ms, cv) ==
    LET cr == eval(repr(cv.sel[1]))
        cf == cv.f
        s == Head(ms)
        rest == Tail(ms)
    IN  IF s.f = None
        THEN [mods |-> rest, jump |-> FALSE, jf |-> None, jr |-> <<0, 0>>]
        ELSE LET sr == eval(s.r)
                 in_different_mod_area == different_mod_area(s.f, cf, cr, sr)
                 i == LoopExit(rest, s.f, sr)
                 kept == IF rest # <<>> THEN SubSeq(rest, i, Len(rest)) ELSE rest
                 j == IF rest # <<>> /\ ~in_different_mod_area THEN rest[i] ELSE s
                 final == IF in_different_mod_area \/ kept = <<>>
                          THEN <<Entry(j.f, repr(RegionOf(eval(j.r))), j.t)>> \o kept
                          ELSE kept
             IN  [mods |-> final, jump |-> TRUE, jf |-> j.f, jr |-> eval(j.r)]

\* run falling back on the modification-history when the jump-history is empty
run_falling_back(to, cv) ==
    IF (to = "last_modification" \/ last = <<>>) /\ mods # <<>>
    THEN IF Len(cv.sel) = 0
         THEN /\ status' = "raise IndexError"
              /\ jumped' = NoJump
              /\ UNCHANGED <<last, mods, views, callbacks, ncb>>
         ELSE LET res == lastModifications(mods, cv)
              IN  /\ mods' = res.mods
                  /\ status' = ""
                  /\ UNCHANGED last
                  /\ IF res.jump
                     THEN jump(res.jf, res.jr)
                     ELSE jumped' = NoJump /\ UNCHANGED <<views, callbacks, ncb>>
    ELSE IF last = <<>>
         THEN /\ status' = "JumpBack buffer empty"
              /\ jumped' = NoJump
              /\ UNCHANGED <<last, mods, views, callbacks, ncb>>
         ELSE LET e == last[Len(last)]
              IN  /\ last' = SubSeq(last, 1, Len(last) - 1)
                  /\ status' = ""
                  /\ UNCHANGED mods
                  /\ jump(e.f, eval(e.r))

\* JumpBack.run(to) with the active view cv
run(to, cv) ==
    IF to = "last_modification" /\ mods # <<>>
    THEN IF Len(cv.sel) = 0
         THEN /\ status' = "raise IndexError"
              /\ jumped' = NoJump
              /\ UNCHANGED <<last, mods, views, callbacks, ncb>>
         ELSE LET res == lastModifications(mods, cv)
              IN  /\ mods' = res.mods
                  /\ status' = ""
                  /\ UNCHANGED last
                  /\ IF res.jump
                     THEN jump(res.jf, res.jr)
                     ELSE jumped' = NoJump /\ UNCHANGED <<views, callbacks, ncb>>
    ELSE IF last = <<>>
         THEN /\ status' = "JumpBack buffer empty"
              /\ jumped' = NoJump
              /\ UNCHANGED <<last, mods, views, callbacks, ncb>>
         ELSE LET e == last[Len(last)]
              IN  /\ last' = SubSeq(last, 1, Len(last) - 1)
                  /\ status' = ""
                  /\ UNCHANGED mods
                  /\ jump(e.f, eval(e.r))

(***************************************************************************)
(* The handlers as actions                                                 *)
(***************************************************************************)
\* show_tag_panel.on_select: JumpBack.append(view) before the navigation
RecordJump(V) ==
    \E v \in V :
        /\ njump < MaxJumps
        /\ op' = "record_jump"
        /\ cur' = v
        /\ IF Len(v.sel) = 0
           THEN status' = "raise IndexError" /\ UNCHANGED <<last, njump>>
           ELSE /\ last' = append(last, v, njump + 1)
                /\ njump' = IF last' # last THEN njump + 1 ELSE njump
                /\ status' = ""
        /\ jumped' = NoJump
        /\ UNCHANGED <<mods, nmod, views, callbacks, ncb, fired, catches>>
        /\ UNCHANGED <<rebuildVars, lookupVars, scrollVars>>

\* the JumpBack command without arguments
GoBack(V) ==
    \E v \in V :
        /\ op' = "go_back"
        /\ cur' = v
        /\ run("", v)
        /\ UNCHANGED <<njump, nmod, fired, catches>>
        /\ UNCHANGED <<rebuildVars, lookupVars, scrollVars>>

\* the JumpBack command with to = 'last_modification'
GoBackToLastModification(V) ==
    \E v \in V :
        /\ op' = "go_back_to_last_modification"
        /\ cur' = v
        /\ run("last_modification", v)
        /\ UNCHANGED <<njump, nmod, fired, catches>>
        /\ UNCHANGED <<rebuildVars, lookupVars, scrollVars>>

\* an edit in view v; with a push bound the entry carries the next stamp
OnModified(V, bound) ==
    \E v \in V :
        /\ nmod < bound
        /\ op' = "on_modified"
        /\ cur' = v
        /\ mods' = on_modified(mods, v, nmod + 1)
        /\ nmod' = IF mods' # mods THEN nmod + 1 ELSE nmod
        /\ status' = ""
        /\ jumped' = NoJump
        /\ UNCHANGED <<last, njump, views, callbacks, ncb, fired, catches>>
        /\ UNCHANGED <<rebuildVars, lookupVars, scrollVars>>

(***************************************************************************)
(* The host's on_load event: every callback of ON_LOAD is called, in list  *)
(* order, while set_on_load.on_load removes its instance from that list    *)
(***************************************************************************)
\* set_on_load.remove: self.callbacks.remove(self)
RemoveAt(s, i) == SubSeq(s, 1, i - 1) \o SubSeq(s, i + 1, Len(s))

\* set_on_load.on_load run for the callbacks from position i on; R holds the
\* instances whose continuation raises, vs the views after the load
RECURSIVE Dispatch(_, _, _, _, _, _)
Dispatch(cbs, i, log, sel, R, vs) ==
    IF i > Len(cbs)
    THEN [callbacks |-> cbs, log |-> log, jumped |-> sel]
    ELSE LET c == cbs[i]
             raised == c.id \in R
             log2 == Append(log, [id |-> c.id, early |-> vs[c.f] = "loading",
                                  raised |-> raised])
             sel2 == IF raised THEN sel ELSE [f |-> c.f, sel |-> c.sel]
             cbs2 == RemoveAt(cbs, i)
         IN  IF raised /\ ~catches
             THEN [callbacks |-> cbs2, log |-> log2, jumped |-> sel2]
             ELSE Dispatch(cbs2, i + 1, log2, sel2, R, vs)

LoadEvent ==
    \E f \in Files :
        /\ views[f] = "loading"
        /\ views' = [views EXCEPT ![f] = "loaded"]
        /\ \E R \in SUBSET {callbacks[k].id : k \in 1..Len(callbacks)} :
               LET d == Dispatch(callbacks, 1, <<>>, NoJump, R, views')
               IN  /\ callbacks' = d.callbacks
                   /\ fired' = fired \o d.log
                   /\ jumped' = d.jumped
        /\ op' = "on_load"
        /\ status' = ""
        /\ UNCHANGED <<last, mods, njump, nmod, cur, ncb, catches>>
        /\ UNCHANGED <<rebuildVars, lookupVars, scrollVars>>

\* the user opens a file in the editor: no continuation is registered
UserOpen ==
    \E f \in Files :
        /\ views[f] = "closed"
        /\ views' = open_file(views, f)
        /\ op' = "user_open"
        /\ status' = ""
        /\ jumped' = NoJump
        /\ UNCHANGED <<last, mods, njump, nmod, cur, callbacks, ncb, fired, catches>>
        /\ UNCHANGED <<rebuildVars, lookupVars, scrollVars>>

(***************************************************************************)
(* Paths: a path is the sequence of its characters. The tree holds the     *)
(* directories /, /p and /p/a and the source file /p/a/g.c; the index file *)
(* is named t (setting tag_file).                                          *)
(***************************************************************************)
Sep == "/"
NoPath == <<>>
Root == <<Sep>>
DirP == <<Sep, "p">>
DirPA == <<Sep, "p", Sep, "a">>
FileG == <<Sep, "p", Sep, "a", Sep, "g", ".", "c">>
Dirs == {Root, DirP, DirPA}
SourceFiles == {FileG}
tag_file == <<"t">>

Max(S) == CHOOSE x \in S : \A y \in S : y <= x
LastIndexOf(p, c) ==
    LET S == {i \in 1..Len(p) : p[i] = c} IN IF S = {} THEN 0 ELSE Max(S)

RECURSIVE rstrip(_)
rstrip(p) ==
    IF p # <<>> /\ p[Len(p)] = Sep THEN rstrip(SubSeq(p, 1, Len(p) - 1)) ELSE p

\* os.path.dirname
dirname(p) ==
    LET head == SubSeq(p, 1, LastIndexOf(p, Sep))
    IN  IF head # <<>> /\ (\E i \in 1..Len(head) : head[i] # Sep) THEN rstrip(head) ELSE head

\* os.path.join(d, name), name relative
join(d, name) == IF d[Len(d)] = Sep THEN d \o name ELSE d \o <<Sep>> \o name

\* str.split(os.path.sep) and os.path.sep.join
RECURSIVE split(_)
split(p) ==
    LET S == {i \in 1..Len(p) : p[i] = Sep}
    IN  IF S = {} THEN <<p>>
        ELSE <<SubSeq(p, 1, Min(S) - 1)>> \o split(SubSeq(p, Min(S) + 1, Len(p)))

RECURSIVE sepjoin(_)
sepjoin(parts) ==
    IF parts = <<>> THEN <<>>
    ELSE IF Len(parts) = 1 THEN parts[1]
    ELSE parts[1] \o <<Sep>> \o sepjoin(Tail(parts))

\* os.path.splitext(file_name)[1]
get_current_file_suffix(file_name) ==
    LET dot == LastIndexOf(file_name, ".")
    IN  IF dot > LastIndexOf(file_name, Sep) + 1
        THEN SubSeq(file_name, dot, Len(file_name))
        ELSE <<>>

\* the test without `not os.path.isdir(joined)`
has_index_or_dir(d) == tagfiles[d] # 0
\* os.path.exists(joined) and not os.path.isdir(joined) for the index of d
has_index(d) == tagfiles[d] > 0

\* find_tags_relative_to: the walk from the file's directory up to the root
RECURSIVE walk_up(_, _)
walk_up(d, tag) ==
    IF has_index(d) THEN join(d, tag)
    ELSE IF dirname(d) = d THEN NoPath
    ELSE walk_up(dirname(d), tag)

find_tags_relative_to(file_name, tag) ==
    IF file_name = NoPath THEN NoPath ELSE walk_up(dirname(file_name), tag)

reached_top_level_folders(flds, oldpath, path) ==
    \/ oldpath = path
    \/ \E k \in 1..Len(flds) :
           \/ SubSeq(flds[k], 1, IF Len(path) < Len(flds[k]) THEN Len(path) ELSE Len(flds[k]))
                  = path
           \/ path = dirname(flds[k])

RECURSIVE climb(_, _, _)
climb(flds, oldpath, path) ==
    IF reached_top_level_folders(flds, oldpath, path) THEN path
    ELSE climb(flds, path, dirname(path))

find_top_folder(flds, filename) ==
    IF Len(flds) = 0 THEN dirname(filename) ELSE climb(flds, <<>>, dirname(filename))

\* commonfolder([tag_dir, file_name]): tag_dir, a prefix of file_name, is the
\* smaller of the two
commonfolder(tag_dir, file_name) ==
    LET s1 == split(tag_dir)
        s2 == split(file_name)
        D == {i \in 1..Len(s1) : s1[i] # s2[i]}
    IN  IF D = {} THEN sepjoin(s1) ELSE sepjoin(SubSeq(s1, 1, Min(D) - 1))

\* files_to_search(file_name, tags_file, False)
files_to_search(file_name, tags_file) ==
    LET common_prefix == commonfolder(dirname(tags_file), file_name)
    IN  <<SubSeq(file_name, Len(common_prefix) + 2, Len(file_name))>>

(***************************************************************************)
(* ShowSymbols and its cache                                               *)
(***************************************************************************)
EmptyDict == [k \in {} |-> 0]
Put(dict, key, value) ==
    [k \in DOMAIN dict \cup {key} |-> IF k = key THEN value ELSE dict[k]]

NoQuery == [file |-> NoPath]

\* TagFile(tags_file + '_sorted_by_file').get_tags_dict...: the symbols are
\* those of the index file as it is now
get_tags(tags_file) ==
    [index |-> dirname(tags_file), build |-> tagfiles[dirname(tags_file)]]

\* check_if_building returning True whatever the flag says
check_if_building_always == TRUE
\* check_if_building, the is_enabled of the lookup and listing commands: None,
\* with the status message 'Please wait while tags are built', while the
\* flag of build_ctags is set
check_if_building == running = 0

\* the show_symbols command: is_enabled, then ShowSymbols.run behind
\* ctags_goto_command, for the view of source file `file` and the argument type
ShowSymbols ==
    \E file \in SourceFiles \cup {NoPath}, type \in {"", "lang"} :
        LET tags_file == find_tags_relative_to(file, tag_file)
        IN  /\ op' = "show_symbols"
            /\ IF ~check_if_building
               THEN /\ status' = "Please wait while tags are built"
                    /\ UNCHANGED <<tags_cache, lastQuery>>
               ELSE IF tags_file = NoPath
               THEN /\ status' = "Can't find any relevant tags file"
                    /\ lastQuery' = NoQuery
                    /\ UNCHANGED tags_cache
               ELSE LET key == IF type = "lang" THEN get_current_file_suffix(file)
                               ELSE files_to_search(file, tags_file)[1]
                        base_path == find_top_folder(folders, file)
                        hit == key \in DOMAIN tags_cache[base_path]
                        tags == IF hit THEN tags_cache[base_path][key]
                                ELSE get_tags(tags_file)
                    IN  /\ tags_cache' = [tags_cache EXCEPT ![base_path] = Put(@, key, tags)]
                        /\ lastQuery' = [file |-> file, tags |-> tags,
                                         disk |-> get_tags(tags_file),
                                         quiet |-> /\ running = 0
                                                   /\ timeouts = <<>>
                                                   /\ dialog = ""]
                        /\ status' = ""
            /\ UNCHANGED <<running, threads, timeouts, tagfiles, nbuilds, nruns, folders,
                           req, dialog, ctags_list>>
            /\ UNCHANGED <<navVars, loadVars, lookupVars, scrollVars>>

\* CTagsAutoComplete.on_query_completions: the list is harvested from the index
\* of the first project folder when none is cached
QueryCompletions ==
    /\ folders # <<>>
    /\ op' = "query_completions"
    /\ ctags_list' = IF ctags_list = 0 /\ has_index(folders[1])
                     THEN tagfiles[folders[1]] ELSE ctags_list
    /\ status' = ""
    /\ UNCHANGED <<running, threads, timeouts, tags_cache, tagfiles, nbuilds, nruns, folders,
                   req, dialog, lastQuery>>
    /\ UNCHANGED <<navVars, loadVars, lookupVars, scrollVars>>

(***************************************************************************)
(* The lookup by symbol: NavigateToDefinition, SearchForDefinition,        *)
(* JumpToDefinition.run over alternate_tags_paths, and show_tag_panel      *)
(***************************************************************************)
\* the settings extra_tag_files and extra_tag_paths, and sublime.platform()
extra_tag_files == << <<"x">> >>
ExtT == <<Sep, "e", Sep, "t">>
extra_tag_paths == << [selector |-> "source.c", platform |-> "linux", path |-> ExtT] >>
platform == "linux"

\* disk: files is the set of existing paths besides the index files of
\* tagfiles, lines the content of a <tag_file>_search_paths file split at the
\* newlines, defs[p] the number of definitions of the symbol "sym" in the
\* index file p, scope the syntax scope at the cursor of the open view
NoDisk == [files |-> {}, lines |-> <<>>, defs |-> EmptyDict, scope |-> "text.plain"]
NoLookup == [symbol |-> "", scan |-> <<>>, source |-> NoPath, view |-> View(None, <<>>),
             panel |-> <<>>, input |-> FALSE]

\* os.path.exists
exists(p) ==
    \/ \E d \in Dirs : p = join(d, tag_file) /\ tagfiles[d] # 0
    \/ p \in disk.files

\* os.path.normpath of a path without . and .. components
normpath(p) == IF Len(p) > 1 THEN rstrip(p) ELSE p

\* view.file_name() of the views of the lookup commands
file_name(v) == IF v.f = "g" THEN FileG ELSE NoPath

\* view.match_selector(view.sel()[0].begin(), selector)
match_selector(selector) == disk.scope = selector

RECURSIVE folder_paths(_)
folder_paths(flds) ==
    IF flds = <<>> THEN <<>>
    ELSE <<normpath(join(flds[1], tag_file))>>
         \o [k \in 1..Len(extra_tag_files) |-> normpath(join(flds[1], extra_tag_files[k]))]
         \o folder_paths(Tail(flds))

\* the list search_paths that alternate_tags_paths builds, in the order it
\* appends to it
search_paths(v, tags_file) ==
    LET tags_paths == tags_file \o <<"_search_paths">>
        from_file == IF exists(tags_paths) THEN disk.lines ELSE <<>>
        matching == {k \in 1..Len(extra_tag_paths) :
                        /\ match_selector(extra_tag_paths[k].selector)
                        /\ platform = extra_tag_paths[k].platform}
        from_setting == IF Len(v.sel) = 0 \/ matching = {} THEN <<>>
                        ELSE <<extra_tag_paths[1].path>>
        extra == IF exists(tags_paths)
                 THEN [k \in 1..Len(extra_tag_files) |->
                          normpath(join(dirname(tags_file), extra_tag_files[k]))]
                 ELSE <<>>
    IN  <<tags_file>> \o from_file \o from_setting \o extra \o folder_paths(folders)

\* alternate_tags_paths: set(p for p in search_paths if p and os.path.exists(p))
alternate_tags_paths(v, tags_file) ==
    LET l == search_paths(v, tags_file)
    IN  {l[k] : k \in {i \in 1..Len(l) : l[i] # <<>> /\ exists(l[i])}}

\* a tag of the index file p: its file and line, the k-th definition
Tag(p, k) == [f |-> "f", line |-> 10 * k, index |-> p]

\* TagFile(p, SYMBOL).get_tags_dict(symbol, ...): the definitions of the symbol
\* in the index file p; an index that cannot be read holds none
get_tags_dict(p, symbol) ==
    IF symbol = "sym" /\ p \in DOMAIN disk.defs /\ ~(\E d \in Dirs : p = join(d, tag_file)
                                                                  /\ tagfiles[d] < 0)
    THEN [k \in 1..disk.defs[p] |-> Tag(p, k)]
    ELSE <<>>

\* scroll_to_tag(view, tag): the file of the tag is opened and its line selected
scroll_to_tag(tag) == on_load(tag.f, <<tag.line, tag.line>>)

\* on_select without the call of JumpBack.append
on_select_unrecorded(v, args, i) ==
    IF Len(v.sel) = 0
    THEN /\ status' = "raise IndexError"
         /\ jumped' = NoJump
         /\ UNCHANGED <<last, njump, views, callbacks, ncb>>
    ELSE /\ UNCHANGED <<last, njump>>
         /\ status' = ""
         /\ scroll_to_tag(args[i + 1])

\* show_tag_panel.on_select(i) for the tags args offered for view v, i from 0
on_select(v, args, i) ==
    IF Len(v.sel) = 0
    THEN /\ status' = "raise IndexError"
         /\ jumped' = NoJump
         /\ UNCHANGED <<last, njump, views, callbacks, ncb>>
    ELSE /\ last' = append(last, v, njump + 1)
         /\ njump' = IF last' # last THEN njump + 1 ELSE njump
         /\ status' = ""
         /\ scroll_to_tag(args[i + 1])

\* JumpToDefinition.run(symbol, view, tags_file) and show_tag_panel(view,
\* result, True); the index files are scanned in the order in which the set
\* of alternate_tags_paths is iterated, so that any one that defines the
\* symbol can be the first to do so
jump_to_definition(v, symbol, tags_file) ==
    LET paths == alternate_tags_paths(v, tags_file)
        defining == {q \in paths : get_tags_dict(q, symbol) # <<>>}
        l == search_paths(v, tags_file)
        scan == [symbol |-> symbol, scan |-> l, view |-> v, input |-> FALSE]
    IN  IF defining = {}
        THEN /\ status' = "Can't find symbol"
             /\ lookup' = scan @@ [source |-> NoPath, panel |-> <<>>]
             /\ jumped' = NoJump
             /\ UNCHANGED <<last, njump, views, callbacks, ncb>>
        ELSE \E src \in defining :
                 LET args == get_tags_dict(src, symbol)
                 IN  IF Len(args) = 1
                     THEN /\ lookup' = scan @@ [source |-> src, panel |-> <<>>]
                          /\ on_select(v, args, 0)
                     ELSE /\ lookup' = scan @@ [source |-> src, panel |-> args]
                          /\ status' = ""
                          /\ jumped' = NoJump
                          /\ UNCHANGED <<last, njump, views, callbacks, ncb>>

\* the body of a lookup for view v once the command is enabled: the wrapper of
\* ctags_goto_command, or SearchForDefinition.on_done
goto_command(v, symbol) ==
    LET tags_file == find_tags_relative_to(file_name(v), tag_file)
    IN  IF tags_file = NoPath
        THEN /\ status' = "Can't find any relevant tags file"
             /\ lookup' = [NoLookup EXCEPT !.symbol = symbol, !.view = v]
             /\ jumped' = NoJump
             /\ UNCHANGED <<last, njump, views, callbacks, ncb>>
        ELSE jump_to_definition(v, symbol, tags_file)

\* a command whose is_enabled is check_if_building, called while tags are built
please_wait ==
    /\ status' = "Please wait while tags are built"
    /\ jumped' = NoJump
    /\ UNCHANGED <<last, njump, views, callbacks, ncb, lookup>>

lookupFrame == <<mods, nmod, fired, catches, rebuildVars, disk, scrollVars>>

\* the views the lookup commands run in, and the words looked up
LookupViews == {Caret("g", 10), Caret(None, 10), View("g", <<>>)}
Symbols == {"sym", "zzz"}

\* NavigateToDefinition: the symbol is the word at the cursor; view.sel()[0]
\* is evaluated once the wrapper has found a tags file
NavigateToDefinitionIn(V, S) ==
    \E v \in V, symbol \in S :
        /\ njump < MaxJumps
        /\ op' = "navigate_to_definition"
        /\ cur' = v
        /\ IF ~check_if_building THEN please_wait
           ELSE IF find_tags_relative_to(file_name(v), tag_file) # NoPath /\ Len(v.sel) = 0
           THEN /\ status' = "raise IndexError"
                /\ jumped' = NoJump
                /\ UNCHANGED <<last, njump, views, callbacks, ncb, lookup>>
           ELSE goto_command(v, symbol)
        /\ UNCHANGED lookupFrame

NavigateToDefinition == NavigateToDefinitionIn(LookupViews, Symbols)

\* SearchForDefinition.run: the input panel is shown
SearchForDefinitionIn(V) ==
    \E v \in V :
        /\ op' = "search_for_definition"
        /\ cur' = v
        /\ IF ~check_if_building THEN please_wait
           ELSE /\ lookup' = [lookup EXCEPT !.input = TRUE]
                /\ status' = ""
                /\ jumped' = NoJump
                /\ UNCHANGED <<last, njump, views, callbacks, ncb>>
        /\ UNCHANGED lookupFrame

SearchForDefinition == SearchForDefinitionIn(LookupViews)

\* SearchForDefinition.on_done(symbol) with the active view v
SearchOnDone ==
    \E v \in LookupViews, symbol \in Symbols :
        /\ lookup.input
        /\ njump < MaxJumps
        /\ op' = "on_done"
        /\ cur' = v
        /\ goto_command(v, symbol)
        /\ UNCHANGED lookupFrame

\* the quick panel of show_tag_panel calls on_select(i), -1 when cancelled
PanelSelect ==
    \E i \in -1..Len(lookup.panel) - 1 :
        /\ lookup.panel # <<>>
        /\ njump < MaxJumps
        /\ op' = "on_select"
        /\ cur' = lookup.view
        /\ lookup' = [lookup EXCEPT !.panel = <<>>]
        /\ IF i = -1
           THEN /\ status' = ""
                /\ jumped' = NoJump
                /\ UNCHANGED <<last, njump, views, callbacks, ncb>>
           ELSE on_select(lookup.view, lookup.panel, i)
        /\ UNCHANGED lookupFrame

(***************************************************************************)
(* RebuildTags: the command, the threaded decorator and the worker         *)
(***************************************************************************)
NumThreads == 2
MaxRebuilds == 1
Threads == 1..NumThreads

Idle == [pc |-> "idle", paths |-> <<>>, i |-> 0, result |-> NoPath]
Active == {t \in Threads : threads[t].pc # "idle"}

\* the decorator starting a thread whatever the flag says
not_running_unchecked == TRUE
\* the test `if not func.running` of the decorator
not_running == running = 0

\* threaded(...): the wrapper called with the arguments of build_ctags
threaded(paths) ==
    IF not_running
    THEN /\ \E t \in Threads :
                /\ threads[t].pc = "idle"
                /\ \A u \in Threads : threads[u].pc = "idle" => t <= u
                /\ threads' = [threads EXCEPT ![t] =
                                  [pc |-> "loop", paths |-> paths, i |-> 1, result |-> NoPath]]
         /\ running' = 1
         /\ status' = ""
    ELSE /\ status' = "Already running CTags!"
         /\ UNCHANGED <<running, threads>>

\* the arguments of the command and the view it runs in
RebuildInputs ==
    {[dirs |-> <<DirP, DirPA>>, has_dirs |-> TRUE, file |-> NoPath]}
    \cup
    {[dirs |-> <<>>, has_dirs |-> FALSE, file |-> f] : f \in {FileG, NoPath}}

\* RebuildTags.run with the arguments and view drawn from Inputs, while fewer
\* than n rebuilds have been started
RebuildTagsWithin(Inputs, n) ==
    \E r \in Inputs :
        /\ running = 1 \/ nruns < n
        /\ op' = "rebuild_tags"
        /\ req' = r
        /\ IF r.has_dirs THEN threaded(r.dirs)
           ELSE IF r.file # NoPath THEN threaded(<<r.file>>)
           ELSE IF Len(folders) > 0 THEN threaded(folders)
           ELSE /\ status' = "Cannot build CTags: No file or folder open."
                /\ UNCHANGED <<running, threads>>
        /\ nruns' = IF threads' # threads THEN nruns + 1 ELSE nruns
        /\ UNCHANGED <<timeouts, tags_cache, tagfiles, nbuilds, folders, dialog,
                       ctags_list, lastQuery>>
        /\ UNCHANGED <<navVars, loadVars, lookupVars, scrollVars>>

RebuildTagsFor(Inputs) == RebuildTagsWithin(Inputs, MaxRebuilds)

\* RebuildTags.run
RebuildTags == RebuildTagsFor(RebuildInputs)

\* in_main(f)(): sublime.set_timeout(f, 0)
in_main(queue, f) == Append(queue, f)

workerFrame == <<op, status, req, folders, lastQuery, nruns, navVars, loadVars, lookupVars, scrollVars>>

\* the head of the for loop, and tags_building(path)
WorkerLoop(t) ==
    /\ threads[t].pc = "loop"
    /\ IF threads[t].i <= Len(threads[t].paths)
       THEN /\ timeouts' = in_main(timeouts, [do |-> "status_message", arg |-> NoPath])
            /\ threads' = [threads EXCEPT ![t].pc = "ctags"]
       ELSE /\ threads' = [threads EXCEPT ![t].pc = "done"]
            /\ UNCHANGED timeouts
    /\ UNCHANGED <<running, tags_cache, tagfiles, nbuilds, dialog, ctags_list>>
    /\ UNCHANGED workerFrame

\* ctags.build_ctags(path, tag_file, ...): the index file is written in the
\* directory of path (path itself when it is a directory) and its path returned
build_dir(path) == IF path \in Dirs THEN path ELSE dirname(path)

WorkerCtags(t) ==
    /\ threads[t].pc = "ctags"
    /\ \/ /\ nbuilds' = nbuilds + 1
          /\ tagfiles' = [tagfiles EXCEPT
                             ![build_dir(threads[t].paths[threads[t].i])] = nbuilds + 1]
          /\ threads' = [threads EXCEPT
                            ![t].pc = "built",
                            ![t].result = join(build_dir(threads[t].paths[threads[t].i]),
                                               tag_file)]
       \/ /\ threads' = [threads EXCEPT ![t].pc = "failed"]
          /\ UNCHANGED <<nbuilds, tagfiles>>
    /\ UNCHANGED <<running, timeouts, tags_cache, dialog, ctags_list>>
    /\ UNCHANGED workerFrame

\* tags_built(result)
WorkerBuilt(t) ==
    /\ threads[t].pc = "built"
    /\ timeouts' = in_main(in_main(timeouts, [do |-> "status_message", arg |-> NoPath]),
                           [do |-> "clear", arg |-> dirname(threads[t].result)])
    /\ threads' = [threads EXCEPT ![t].pc = "loop", ![t].i = @ + 1]
    /\ UNCHANGED <<running, tags_cache, tagfiles, nbuilds, dialog, ctags_list>>
    /\ UNCHANGED workerFrame

\* the except clauses: error_message(...) and return, or the exception of
\* e.strerror.decode when strerror has no decode, which leaves the thread
\* with a traceback on the console
WorkerFailed(t) ==
    /\ threads[t].pc = "failed"
    /\ \/ dialog' = "error_message"
       \/ dialog' = "traceback"
    /\ threads' = [threads EXCEPT ![t].pc = "finally"]
    /\ UNCHANGED <<running, timeouts, tags_cache, tagfiles, nbuilds, ctags_list>>
    /\ UNCHANGED workerFrame

\* GetAllCTagsList.ctags_list = []
WorkerDone(t) ==
    /\ threads[t].pc = "done"
    /\ ctags_list' = 0
    /\ threads' = [threads EXCEPT ![t].pc = "finally"]
    /\ UNCHANGED <<running, timeouts, tags_cache, tagfiles, nbuilds, dialog>>
    /\ UNCHANGED workerFrame

\* a wrapper without the finally clause: the thread ends, the flag stays set
WorkerFinally_flag_kept(t) ==
    /\ threads[t].pc = "finally"
    /\ threads' = [threads EXCEPT ![t] = Idle]
    /\ UNCHANGED <<running, timeouts, tags_cache, tagfiles, nbuilds, dialog, ctags_list>>
    /\ UNCHANGED workerFrame

\* the finally clause of threaded's run: func.running = 0, and the thread ends
WorkerFinally(t) ==
    /\ threads[t].pc = "finally"
    /\ running' = 0
    /\ threads' = [threads EXCEPT ![t] = Idle]
    /\ UNCHANGED <<timeouts, tags_cache, tagfiles, nbuilds, dialog, ctags_list>>
    /\ UNCHANGED workerFrame

\* the main thread runs the oldest callback queued with set_timeout
RunTimeout ==
    /\ timeouts # <<>>
    /\ timeouts' = Tail(timeouts)
    /\ IF Head(timeouts).do = "clear"
       THEN /\ tags_cache' = [tags_cache EXCEPT ![Head(timeouts).arg] = EmptyDict]
            /\ UNCHANGED status
       ELSE /\ status' = "Building or finished"
            /\ UNCHANGED tags_cache
    /\ op' = "timeout"
    /\ UNCHANGED <<running, threads, tagfiles, nbuilds, nruns, folders, req, dialog, ctags_list,
                   lastQuery>>
    /\ UNCHANGED <<navVars, loadVars, lookupVars, scrollVars>>

(***************************************************************************)
(* Specifications                                                          *)
(***************************************************************************)
InitHistory ==
    /\ last = <<>>
    /\ mods = <<>>
    /\ njump = 0
    /\ nmod = 0
    /\ op = "init"
    /\ cur = View(None, <<>>)
    /\ jumped = NoJump
    /\ status = ""
    /\ callbacks = <<>>
    /\ ncb = 0
    /\ fired = <<>>

InitRebuild ==
    /\ running = 0
    /\ threads = [t \in Threads |-> Idle]
    /\ timeouts = <<>>
    /\ tags_cache = [d \in Dirs |-> EmptyDict]
    /\ nbuilds = 1
    /\ nruns = 0
    /\ req = [dirs |-> <<>>, has_dirs |-> FALSE, file |-> NoPath]
    /\ dialog = ""
    /\ ctags_list = 0
    /\ lastQuery = NoQuery

(***************************************************************************)
(* ShowSymbols one invocation at a time                                    *)
(***************************************************************************)
MaxNesting == 3

\* no show_symbols request made yet
NoListing == [pc |-> "idle", file |-> NoPath, type |-> "", tags |-> 0, depth |-> 0,
              panel |-> FALSE]

\* get_tags(): the number of records TagFile(tags_file + '_sorted_by_file')
\* yields for the query, 0 for an empty dictionary
listed_tags(tags_file) == IF tags_file \in DOMAIN disk.defs THEN disk.defs[tags_file] ELSE 0

\* one invocation of the show_symbols command with {'type': type} in the view
\* of file, depth invocations below the one the user made: is_enabled, then
\* ShowSymbols.run behind ctags_goto_command. With no tags and type 'multi'
\* it calls view.run_command('show_symbols', {'type': 'multi'}): the nested
\* invocation is the next step (counted up to MaxNesting)
show_symbols(file, type, depth) ==
    LET tags_file == find_tags_relative_to(file, tag_file)
        multi == type = "multi"
        lang == type = "lang"
        ended(tags, panel) == [pc |-> "ended", file |-> file, type |-> type, tags |-> tags,
                               depth |-> depth, panel |-> panel]
    IN  IF ~check_if_building
        THEN /\ status' = "Please wait while tags are built"
             /\ listing' = ended(0, FALSE)
             /\ UNCHANGED tags_cache
        ELSE IF tags_file = NoPath
        THEN /\ status' = "Can't find any relevant tags file"
             /\ listing' = ended(0, FALSE)
             /\ UNCHANGED tags_cache
        ELSE LET key == IF lang THEN get_current_file_suffix(file)
                        ELSE IF multi THEN <<>>
                        ELSE files_to_search(file, tags_file)[1]
                 base_path == find_top_folder(folders, file)
                 tags == IF key \in DOMAIN tags_cache[base_path]
                         THEN tags_cache[base_path][key]
                         ELSE listed_tags(tags_file)
             IN  /\ tags_cache' = [tags_cache EXCEPT ![base_path] = Put(@, key, tags)]
                 /\ IF tags = 0 /\ multi
                    THEN /\ listing' = [pc |-> "issued", file |-> file, type |-> type,
                                        tags |-> tags,
                                        depth |-> Min({depth + 1, MaxNesting}),
                                        panel |-> FALSE]
                         /\ status' = ""
                    ELSE IF tags = 0
                    THEN /\ listing' = ended(tags, FALSE)
                         /\ status' = "No symbols found **FOR CURRENT FILE**; Try Rebuild?"
                    ELSE /\ listing' = ended(tags, TRUE)
                         /\ status' = ""

\* the user runs show_symbols
ShowSymbolsRun(Fs, Types) ==
    \E file \in Fs, type \in Types :
        /\ listing.pc # "issued"
        /\ op' = "show_symbols"
        /\ show_symbols(file, type, 0)
        /\ UNCHANGED <<running, threads, timeouts, tagfiles, nbuilds, nruns, folders,
                       req, dialog, ctags_list, lastQuery>>
        /\ UNCHANGED <<navVars, loadVars, lookupVars, buffer, found, frame, host>>

\* the host runs the command given to view.run_command
RunCommand ==
    /\ listing.pc = "issued"
    /\ op' = "run_command"
    /\ show_symbols(listing.file, listing.type, listing.depth)
    /\ UNCHANGED <<running, threads, timeouts, tagfiles, nbuilds, nruns, folders,
                   req, dialog, ctags_list, lastQuery>>
    /\ UNCHANGED <<navVars, loadVars, lookupVars, buffer, found, frame, host>>

(***************************************************************************)
(* Scrolling functions: find_with_scope, find_source, follow_tag_path      *)
(***************************************************************************)
MaxBuf == 3

\* a buffer: its characters, each with the scope the syntax definition gives it
Chars == {"T", "$", "\n"}
Scopes == {"source", "comment", "entity.name.type"}
Buffers == UNION {[1..n -> Chars \X Scopes] : n \in 0..MaxBuf}
Scoped(str, scope) == [k \in 1..Len(str) |-> <<str[k], scope>>]

\* view.size(), view.substr(pt) and the scope name at pt
size(view) == Len(view)
char_at(view, pt) == view[pt + 1][1]
scope_name(view, pt) == IF pt \in 0..size(view) - 1 THEN view[pt + 1][2] ELSE "source"

\* the selectors 'comment,string' and ENTITY_SCOPE, and view.match_selector
COMMENT_STRING == {"comment", "string"}
ENTITY_SCOPE == {"entity.name.function", "entity.name.type", "meta.toc-list"}
view_match_selector(view, pt, selector) == scope_name(view, pt) \in selector

\* what view.find returns when nothing matches, and the local f of
\* find_with_scope before its first assignment: reading it raises
\* UnboundLocalError
NoneRegion == Region(-1, -1)
Unbound == Region(-2, -2)
\* the search flags: sublime.LITERAL, and {} for flags=0
LITERAL == {"LITERAL"}

\* RE_SPECIAL_CHARS and escape_regex: a backslash before each of them
RE_SPECIAL_CHARS ==
    {"\\", "*", "+", "?", "|", "{", "}", "[", "]", "(", ")", "^", "$", ".", "#", " "}
RECURSIVE escape_regex(_)
escape_regex(str) ==
    IF str = <<>> THEN <<>>
    ELSE (IF str[1] \in RE_SPECIAL_CHARS THEN <<"\\", str[1]>> ELSE <<str[1]>>)
         \o escape_regex(Tail(str))

\* pattern[:-5] + '$'
truncated(pattern) ==
    (IF Len(pattern) > 5 THEN SubSeq(pattern, 1, Len(pattern) - 5) ELSE <<>>) \o <<"$">>

\* the pattern as the host's search reads it: with LITERAL every character
\* stands for itself; else ^ and $ are the anchors of a line, a backslash
\* makes the next character literal, any other character stands for itself
literal(pattern) == [k \in 1..Len(pattern) |-> [kind |-> "lit", c |-> pattern[k]]]
RECURSIVE tokens(_)
tokens(re) ==
    IF re = <<>> THEN <<>>
    ELSE IF re[1] = "\\" /\ Len(re) > 1
    THEN <<[kind |-> "lit", c |-> re[2]]>> \o tokens(SubSeq(re, 3, Len(re)))
    ELSE IF re[1] = "^" THEN <<[kind |-> "bol", c |-> ""]>> \o tokens(Tail(re))
    ELSE IF re[1] = "$" THEN <<[kind |-> "eol", c |-> ""]>> \o tokens(Tail(re))
    ELSE <<[kind |-> "lit", c |-> re[1]]>> \o tokens(Tail(re))

\* the end of the match of toks that begins at pt, -1 when there is none
RECURSIVE match_end(_, _, _)
match_end(view, toks, pt) ==
    IF toks = <<>> THEN pt
    ELSE IF toks[1].kind = "bol"
    THEN IF pt = 0 \/ char_at(view, pt - 1) = "\n" THEN match_end(view, Tail(toks), pt) ELSE -1
    ELSE IF toks[1].kind = "eol"
    THEN IF pt = size(view) \/ char_at(view, pt) = "\n"
         THEN match_end(view, Tail(toks), pt) ELSE -1
    ELSE IF pt < size(view) /\ char_at(view, pt) = toks[1].c
         THEN match_end(view, Tail(toks), pt + 1) ELSE -1

\* view.find(pattern, start_pos, flags): the first match at or after start_pos
find(view, pattern, start_pos, flags) ==
    LET toks == IF flags = LITERAL THEN literal(pattern) ELSE tokens(pattern)
        from == IF start_pos < 0 THEN 0 ELSE start_pos
        hits == {pt \in from..size(view) : match_end(view, toks, pt) # -1}
    IN  IF hits = {} THEN NoneRegion
        ELSE Region(Min(hits), match_end(view, toks, Min(hits)))

\* find_with_scope: the while loop from start_pos, f the value of the local
RECURSIVE find_with_scope_loop(_, _, _, _, _, _, _)
find_with_scope_loop(view, pattern, scope, start_pos, cond, flags, f) ==
    IF ~(start_pos < size(view)) THEN f
    ELSE LET g == find(view, truncated(pattern), start_pos, flags)
         IN  IF g = NoneRegion \/ view_match_selector(view, g.a, scope) = cond THEN g
             ELSE find_with_scope_loop(view, pattern, scope, g.b, cond, flags, g)

find_with_scope(view, pattern, scope, start_pos, cond, flags) ==
    find_with_scope_loop(view, pattern, scope, start_pos, cond, flags, Unbound)

\* find_source: the matches outside comments and strings
find_source(view, pattern, start_at, flags) ==
    find_with_scope(view, pattern, COMMENT_STRING, start_at, FALSE, flags)

\* follow_tag_path: the for loop over the elements ps and its inner
\* `while True`, regions the list so far; an exception ends the loop
RECURSIVE follow_path(_, _, _)
follow_path(view, ps, regions) ==
    IF ps = <<>> THEN regions
    ELSE LET r == find_source(view, ps[1], regions[Len(regions)].a, LITERAL)
             appended == Append(regions, r)
         IN  IF r = Unbound THEN appended
             ELSE IF \/ r = NoneRegion
                     \/ r = regions[Len(regions)]
                     \/ view_match_selector(view, r.a, ENTITY_SCOPE)
             THEN follow_path(view, Tail(ps), SelectSeq(appended, LAMBDA x : x # NoneRegion))
             ELSE follow_path(view, ps, appended)

Raised(tag_path, pattern, regions) ==
    [raised |-> TRUE, tag_path |-> tag_path, pattern |-> pattern, regions |-> regions,
     pattern_region |-> NoneRegion, start_at |-> 0, result |-> 0]

\* follow_tag_path(view, tag_path, pattern): the regions it used and the
\* offset it returns
follow_tag_path(view, tag_path, pattern) ==
    LET ps == IF Len(tag_path) > 2 THEN SubSeq(tag_path, 2, Len(tag_path) - 1) ELSE <<>>
        regions == follow_path(view, ps, <<Region(0, 0)>>)
    IN  IF regions[Len(regions)] = Unbound
        THEN Raised(tag_path, pattern, SubSeq(regions, 1, Len(regions) - 1))
        ELSE LET start_at == Max({regions[k].a : k \in DOMAIN regions}) - 1
                 pattern_region == find_source(view, <<"^">> \o escape_regex(pattern),
                                               start_at, {})
             IN  IF pattern_region = Unbound THEN Raised(tag_path, pattern, regions)
                 ELSE [raised |-> FALSE, tag_path |-> tag_path, pattern |-> pattern,
                       regions |-> regions, pattern_region |-> pattern_region,
                       start_at |-> start_at,
                       result |-> IF pattern_region # NoneRegion THEN pattern_region.a - 1
                                  ELSE start_at]

\* the buffer of the nested markers: a TARGET outside the class, then the one
\* in the body of method bar of class Foo, each on a line of its own
ExampleText ==
    Scoped(<<"T", "A", "R", "G", "E", "T", "\n">>, "source")
    \o Scoped(<<"c", "l", "a", "s", "s", " ">>, "source") \o Scoped(<<"F", "o", "o">>, "entity.name.type")
    \o Scoped(<<" ", "{", "\n">>, "source")
    \o Scoped(<<"m", "e", "t", "h", "o", "d", " ">>, "source") \o Scoped(<<"b", "a", "r">>, "entity.name.function")
    \o Scoped(<<"(", ")", " ", "{", "\n">>, "source")
    \o Scoped(<<"T", "A", "R", "G", "E", "T", "\n">>, "source")
    \o Scoped(<<"}", " ", "}">>, "source")
ClassFoo == <<"c", "l", "a", "s", "s", " ", "F", "o", "o">>
MethodBar == <<"m", "e", "t", "h", "o", "d", " ", "b", "a", "r">>
TARGET == <<"T", "A", "R", "G", "E", "T">>
ExamplePath == <<<<>>, ClassFoo, MethodBar>>
\* the offsets of the body of method bar in ExampleText
BarBody == 33..41

\* the tag paths and ex_commands resolved in the small buffers: the scope
\* element Outer is searched as the literal T$, Inner as $$; the pattern TARGET
\* as the expression ^T$, Dollar as ^T\$
Outer == <<"T", "o", "u", "t", "e", "r">>
Inner == <<"$", "$", "n", "n", "e", "r">>
Dollar == <<"T", "$", "A", "R", "G", "E">>
TagPaths == {<<<<>>, TARGET>>, <<<<>>, Outer, TARGET>>, <<<<>>, Outer, Inner, TARGET>>,
             ExamplePath}
ExCommands == {TARGET, Dollar}

NoFound == [raised |-> FALSE, tag_path |-> <<>>, pattern |-> <<>>, regions |-> <<>>,
            pattern_region |-> NoneRegion, start_at |-> 0, result |-> 0]

\* the else branch of scroll_to_tag's and_then: follow_tag_path in the loaded view
FollowTagPath ==
    \E tag_path \in TagPaths, pattern \in ExCommands :
        /\ found = NoFound
        /\ op' = "follow_tag_path"
        /\ found' = follow_tag_path(buffer, tag_path, pattern)
        /\ UNCHANGED <<status, navVars, loadVars, rebuildVars, lookupVars, buffer, frame, host, listing>>

\* the iterations the inner `while True` of follow_tag_path makes for each
\* element of ps, n the number made so far for the first of them
RECURSIVE follow_path_iterations(_, _, _, _)
follow_path_iterations(view, ps, regions, n) ==
    IF ps = <<>> THEN <<>>
    ELSE LET r == find_source(view, ps[1], regions[Len(regions)].a, LITERAL)
             appended == Append(regions, r)
         IN  IF r = Unbound THEN <<n + 1>>
             ELSE IF \/ r = NoneRegion
                     \/ r = regions[Len(regions)]
                     \/ view_match_selector(view, r.a, ENTITY_SCOPE)
             THEN <<n + 1>> \o follow_path_iterations(view, Tail(ps),
                                   SelectSeq(appended, LAMBDA x : x # NoneRegion), 0)
             ELSE follow_path_iterations(view, ps, appended, n + 1)

\* find_with_scope one iteration at a time. The frame of a call: its
\* arguments, the locals start_pos and f, and iters, the iterations of the
\* while loop made so far (counted up to MaxIters)
MaxIters == MaxBuf + 2
NoFrame == [pc |-> "idle", pattern |-> <<>>, scope |-> {}, cond |-> FALSE, flags |-> {},
            start_pos |-> 0, f |-> Unbound, iters |-> 0]

\* `not f`: None is false; a Region is false when it is empty and the host's
\* Region class has __len__, and true otherwise
not_(f) == f = NoneRegion \/ (host /\ f.a = f.b)

\* the ex_commands searched as expressions: Short as $ and Blank as ^$, both
\* of which match the empty string at the end of a line; TARGET as ^T$
Short == <<"T">>
Blank == <<"T", "A", "R", "G", "E">>

\* find_source(view, pattern, start_at, flags) is called: max_pos = view.size()
FindSource(Patterns, Starts) ==
    \E pattern \in Patterns, start_at \in Starts :
        /\ frame.pc # "loop"
        /\ op' = "find_source"
        /\ frame' = [pc |-> "loop", pattern |-> <<"^">> \o escape_regex(pattern),
                     scope |-> COMMENT_STRING, cond |-> FALSE, flags |-> {},
                     start_pos |-> start_at, f |-> Unbound, iters |-> 0]
        /\ UNCHANGED <<status, navVars, loadVars, rebuildVars, lookupVars, buffer, found, host, listing>>

\* one evaluation of `while start_pos < max_pos` and of the body of the loop;
\* `return f` when the loop ends
FindWithScopeIteration ==
    /\ frame.pc = "loop"
    /\ IF ~(frame.start_pos < size(buffer))
       THEN frame' = [frame EXCEPT !.pc = "returned"]
       ELSE LET g == find(buffer, truncated(frame.pattern), frame.start_pos, frame.flags)
                n == Min({frame.iters + 1, MaxIters})
            IN  IF not_(g) \/ view_match_selector(buffer, g.a, frame.scope) = frame.cond
                THEN frame' = [frame EXCEPT !.pc = "returned", !.f = g, !.iters = n]
                ELSE frame' = [frame EXCEPT !.f = g, !.start_pos = g.b, !.iters = n]
    /\ UNCHANGED <<op, status, navVars, loadVars, rebuildVars, lookupVars, buffer, found, host, listing>>

\* no tag located yet
InitScroll ==
    /\ buffer = <<>>
    /\ found = NoFound
    /\ frame = NoFrame
    /\ host = TRUE
    /\ listing = NoListing

\* no file besides the index files, no lookup made yet
InitLookup ==
    /\ disk = NoDisk
    /\ lookup = NoLookup
    /\ InitScroll

\* the views of the navigation history: every file is open in a tab already
NavViews == {Caret("f", 10), Caret("f", 50), Caret(None, 10), View("f", <<>>)}

InitNav ==
    /\ InitHistory
    /\ views = [f \in Files |-> "loaded"]
    /\ catches = TRUE
    /\ InitRebuild
    /\ InitLookup
    /\ tagfiles = [d \in Dirs |-> 0]
    /\ folders = <<>>

NextNav ==
    \/ RecordJump(NavViews)
    \/ GoBack(NavViews)
    \/ OnModified(NavViews, MaxModPush)
    \/ GoBackToLastModification(NavViews)

SpecNav == InitNav /\ [][NextNav]_vars

\* the documented scenario of the modification-history: edits at 10, 20, 25,
\* 30 and 200 in file f, the cursor at 205
ExampleEdits == {Caret("f", 10), Caret("f", 20), Caret("f", 25), Caret("f", 30),
                 Caret("f", 200), Caret(None, 10)}
ExampleCursors == {Caret("f", 205), Caret("f", 240), Caret("f", 10), Caret(None, 10)}

NextExample ==
    \/ OnModified(ExampleEdits, MaxExamplePush)
    \/ GoBackToLastModification(ExampleCursors)

SpecExample == InitNav /\ [][NextExample]_vars

\* enough edits at one place to overflow the modification-history
CapViews == {Caret("f", 10)}
CapCursors == {Caret("f", 10), Caret("f", 200)}

NextCap ==
    \/ OnModified(CapViews, EditsForCap)
    \/ GoBackToLastModification(CapCursors)

SpecCap == InitNav /\ [][NextCap]_vars

\* jumps into files that are not open yet
LoadViews == {Caret("f", 10), Caret("g", 10)}

InitLoad ==
    /\ InitHistory
    /\ views = [f \in Files |-> "closed"]
    /\ catches \in BOOLEAN
    /\ InitRebuild
    /\ InitLookup
    /\ tagfiles = [d \in Dirs |-> 0]
    /\ folders = <<>>

NextLoad ==
    \/ RecordJump(LoadViews)
    \/ GoBack(LoadViews)
    \/ UserOpen
    \/ LoadEvent

SpecLoad == InitLoad /\ [][NextLoad]_vars

\* the rebuild worker, the main thread's timeouts and the symbol queries; the
\* project folder /p is open or no folder is, and the index file /p/a/t exists
Init ==
    /\ InitHistory
    /\ views = [f \in Files |-> "loaded"]
    /\ catches = TRUE
    /\ InitRebuild
    /\ InitLookup
    /\ folders \in {<<>>, <<DirP>>}
    /\ tagfiles = [x \in Dirs |-> IF x = DirPA THEN 1 ELSE 0]

Next ==
    \/ RebuildTags
    \/ ShowSymbols
    \/ QueryCompletions
    \/ RunTimeout
    \/ \E t \in Threads :
           \/ WorkerLoop(t)
           \/ WorkerCtags(t)
           \/ WorkerBuilt(t)
           \/ WorkerFailed(t)
           \/ WorkerDone(t)
           \/ WorkerFinally(t)

Spec == Init /\ [][Next]_vars

\* the lookup commands over every placement of index files and of directories
\* named like the index file in the directories above the source file; every
\* index file defines the symbol, the one of the root twice
InitResolve ==
    /\ InitHistory
    /\ views = [f \in Files |-> "loaded"]
    /\ catches = TRUE
    /\ InitRebuild
    /\ folders = <<>>
    /\ tagfiles \in [Dirs -> {-1, 0, 1}]
    /\ disk = [NoDisk EXCEPT !.defs = [q \in {join(d, tag_file) : d \in Dirs} |->
                                          IF q = join(Root, tag_file) THEN 2 ELSE 1]]
    /\ lookup = NoLookup
    /\ InitScroll

NextResolve ==
    \/ NavigateToDefinition
    \/ SearchForDefinition
    \/ SearchOnDone
    \/ PanelSelect

SpecResolve == InitResolve /\ [][NextResolve]_vars

\* the lookup commands over several index files: /p/a/t next to the source
\* file, /p/t in the project folder /p, /e/t of the setting extra_tag_paths
\* and /p/a/x of the setting extra_tag_files; /p/a/t_search_paths, when it
\* exists, names /e/t; every index file defines the symbol, /e/t twice
ScanIndexes == {join(DirPA, tag_file), join(DirP, tag_file), ExtT, join(DirPA, <<"x">>)}
InitScan ==
    /\ InitHistory
    /\ views = [f \in Files |-> "loaded"]
    /\ catches = TRUE
    /\ InitRebuild
    /\ folders = <<DirP>>
    /\ \E n \in 0..1 : tagfiles = [x \in Dirs |-> IF x = DirPA THEN 1
                                                  ELSE IF x = DirP THEN n ELSE 0]
    /\ \E fs \in SUBSET {join(DirPA, tag_file) \o <<"_search_paths">>, ExtT,
                          join(DirPA, <<"x">>)},
          sc \in {"source.c", "text.plain"} :
           disk = [files |-> fs,
                   lines |-> <<ExtT, <<>> >>,
                   defs  |-> [q \in ScanIndexes |-> IF q = ExtT THEN 2 ELSE 1],
                   scope |-> sc]
    /\ lookup = NoLookup
    /\ InitScroll

NextScan ==
    \/ NavigateToDefinition
    \/ SearchForDefinition
    \/ SearchOnDone
    \/ PanelSelect

SpecScan == InitScan /\ [][NextScan]_vars

\* the tag-path resolution in every buffer of at most MaxBuf characters and in
\* the buffer of the nested markers
InitTagPath ==
    /\ InitHistory
    /\ views = [f \in Files |-> "loaded"]
    /\ catches = TRUE
    /\ InitRebuild
    /\ folders = <<>>
    /\ tagfiles = [d \in Dirs |-> 0]
    /\ disk = NoDisk
    /\ lookup = NoLookup
    /\ buffer \in Buffers \cup {ExampleText}
    /\ found = NoFound
    /\ frame = NoFrame
    /\ host = TRUE
    /\ listing = NoListing

NextTagPath == FollowTagPath

SpecTagPath == InitTagPath /\ [][NextTagPath]_vars

\* the search for the ex_command of a tag, one iteration of find_with_scope
\* at a time, in every buffer of at most MaxBuf characters and with either
\* Region class: the one of sublime.py, where an empty Region is false, and
\* one without __len__, where every Region is true. The main thread keeps
\* running the loop it is in
InitFind ==
    /\ InitHistory
    /\ views = [f \in Files |-> "loaded"]
    /\ catches = TRUE
    /\ InitRebuild
    /\ folders = <<>>
    /\ tagfiles = [d \in Dirs |-> 0]
    /\ disk = NoDisk
    /\ lookup = NoLookup
    /\ buffer \in Buffers
    /\ found = NoFound
    /\ frame = NoFrame
    /\ host \in BOOLEAN
    /\ listing = NoListing

FindPatterns == {Short, Blank, TARGET}
FindStarts == {-1, 0}

NextFind ==
    \/ FindSource(FindPatterns, FindStarts)
    \/ FindWithScopeIteration

SpecFind == InitFind /\ [][NextFind]_vars /\ WF_vars(FindWithScopeIteration)

\* the show_symbols requests from the view of /p/a/g.c, each invocation a
\* step: the index /p/a/t exists or not and holds no, one or two records for
\* the query; the project folder /p is open or no folder is; the cache holds
\* nothing, or a result (an empty one included) of an earlier query of any
\* type. The host runs a command given to run_command
ListingKeys == {<<>>, get_current_file_suffix(FileG), <<"g", ".", "c">>}
InitListing ==
    /\ InitHistory
    /\ views = [f \in Files |-> "loaded"]
    /\ catches = TRUE
    /\ running = 0
    /\ threads = [t \in Threads |-> Idle]
    /\ timeouts = <<>>
    /\ nbuilds = 1
    /\ nruns = 0
    /\ req = [dirs |-> <<>>, has_dirs |-> FALSE, file |-> NoPath]
    /\ dialog = ""
    /\ ctags_list = 0
    /\ lastQuery = NoQuery
    /\ InitScroll
    /\ lookup = NoLookup
    /\ folders \in {<<>>, <<DirP>>}
    /\ \E x \in 0..1 : tagfiles = [d \in Dirs |-> IF d = DirPA THEN x ELSE 0]
    /\ \E n \in 0..2 : disk = [NoDisk EXCEPT !.defs = Put(EmptyDict, join(DirPA, tag_file), n)]
    /\ \E c \in {EmptyDict} \cup {Put(EmptyDict, k, n) : k \in ListingKeys, n \in 0..1} :
           tags_cache = [d \in Dirs |-> IF d = find_top_folder(folders, FileG) THEN c
                                        ELSE EmptyDict]

ListingTypes == {"", "lang", "multi"}

NextListing ==
    \/ ShowSymbolsRun(SourceFiles, ListingTypes)
    \/ RunCommand

SpecListing == InitListing /\ [][NextListing]_vars /\ WF_vars(RunCommand)

\* go-to-definition and go_back from the views of /p/a/g.c: the index file
\* /p/a/t defines the symbol once (taken directly) or twice (offered in the
\* panel); the file of the definitions is open in a tab or not
InitJump ==
    /\ InitHistory
    /\ \E x \in {"loaded", "closed"} : views = [f \in Files |-> IF f = "f" THEN x ELSE "loaded"]
    /\ catches = TRUE
    /\ InitRebuild
    /\ folders = <<>>
    /\ tagfiles = [x \in Dirs |-> IF x = DirPA THEN 1 ELSE 0]
    /\ \E n \in 1..2 : disk = [NoDisk EXCEPT !.defs = Put(EmptyDict, join(DirPA, tag_file), n)]
    /\ lookup = NoLookup
    /\ InitScroll

NextJump ==
    \/ NavigateToDefinition
    \/ SearchForDefinition
    \/ SearchOnDone
    \/ PanelSelect
    \/ GoBack(LookupViews)

SpecJump == InitJump /\ [][NextJump]_vars

\* the lookup and listing commands next to the first rebuild, all issued from
\* the view of /p/a/g.c: the project folder /p is open and has no index file
\* yet; the index /p/a/t, once built, defines the symbol once or twice
InitQueries ==
    /\ InitHistory
    /\ views = [f \in Files |-> "loaded"]
    /\ catches = TRUE
    /\ InitRebuild
    /\ folders = <<DirP>>
    /\ tagfiles = [x \in Dirs |-> 0]
    /\ \E n \in 1..2 : disk = [NoDisk EXCEPT !.defs = Put(EmptyDict, join(DirPA, tag_file), n)]
    /\ lookup = NoLookup
    /\ InitScroll

QueryRebuilds == {[dirs |-> <<>>, has_dirs |-> FALSE, file |-> FileG]}
QueryViews == {Caret("g", 10)}
QuerySymbols == {"sym"}

NextQueries ==
    \/ RebuildTagsFor(QueryRebuilds)
    \/ RunTimeout
    \/ \E t \in Threads :
           \/ WorkerLoop(t)
           \/ WorkerCtags(t)
           \/ WorkerBuilt(t)
           \/ WorkerFailed(t)
           \/ WorkerDone(t)
           \/ WorkerFinally(t)
    \/ ShowSymbols
    \/ NavigateToDefinitionIn(QueryViews, QuerySymbols)
    \/ SearchForDefinitionIn(QueryViews)

SpecQueries == InitQueries /\ [][NextQueries]_vars

\* the rebuild requests, the worker and the main thread's timeouts alone
NextRebuild ==
    \/ RebuildTags
    \/ RunTimeout
    \/ \E t \in Threads :
           \/ WorkerLoop(t)
           \/ WorkerCtags(t)
           \/ WorkerBuilt(t)
           \/ WorkerFailed(t)
           \/ WorkerDone(t)
           \/ WorkerFinally(t)

SpecRebuild == Init /\ [][NextRebuild]_vars

\* one rebuild after another: up to MaxRequests rebuilds are started. The
\* interpreter schedules every started thread, the ctags subprocess returns
\* and the host runs the callbacks queued with set_timeout, so a step of the
\* worker or a queued callback that stays possible is taken in the end
MaxRequests == 2

WorkerSteps(t) ==
    \/ WorkerLoop(t)
    \/ WorkerCtags(t)
    \/ WorkerBuilt(t)
    \/ WorkerFailed(t)
    \/ WorkerDone(t)
    \/ WorkerFinally(t)

NextBusy ==
    \/ RebuildTagsWithin(RebuildInputs, MaxRequests)
    \/ RunTimeout
    \/ \E t \in Threads : WorkerSteps(t)

SpecBusy ==
    /\ Init
    /\ [][NextBusy]_vars
    /\ \A t \in Threads : WF_vars(WorkerSteps(t))
    /\ WF_vars(RunTimeout)

(***************************************************************************)
(* The properties of the navigation history                                *)
(***************************************************************************)
\* the target a jump to history entry e selects
Target(e) == [f |-> e.f, sel |-> RegionOf(eval(e.r))]
\* the entries of history h pushed latest
Latest(h) == {k \in 1..Len(h) : \A m \in 1..Len(h) : h[m].t <= h[k].t}
\* position (f1, p1) lies in the modification area of position (f2, p2)
InArea(f1, p1, f2, p2) == f1 = f2 /\ Abs(p1 - p2) < 40
\* the older entries of ms outside the modification area of its first entry
OlderOutside(ms) ==
    {k \in 2..Len(ms) : ~InArea(ms[k].f, eval(ms[k].r)[1], ms[1].f, eval(ms[1].r)[1])}
CursorInside(ms, v) == InArea(v.f, v.sel[1].a, ms[1].f, eval(ms[1].r)[1])
\* a step of go_back_to_last_modification on a history that is not empty
LastModCall ==
    /\ op' = "go_back_to_last_modification"
    /\ Len(cur'.sel) > 0
    /\ mods # <<>>

\* a step of record_jump from a named view appends its file and selection
RecordsJump ==
    (op' = "record_jump" /\ cur'.f # None /\ Len(cur'.sel) > 0)
        => /\ Len(last') = Len(last) + 1
           /\ \A k \in 1..Len(last) : last'[k] = last[k]
           /\ Target(last'[Len(last')]) = [f |-> cur'.f, sel |-> cur'.sel[1]]
           /\ Latest(last') = {Len(last')}
\* a step of go_back returns the entry pushed latest and removes it, or
\* reports the empty history
PopsLatest ==
    (op' = "go_back")
        => IF last = <<>>
           THEN status' = "JumpBack buffer empty" /\ jumped' = NoJump /\ last' = last
           ELSE \E k \in Latest(last) :
                    /\ jumped' = Target(last[k])
                    /\ last' = SubSeq(last, 1, k - 1) \o SubSeq(last, k + 1, Len(last))

\* C3: go_back returns the recorded jumps in reverse push order, removing each
\* one it returns, and reports EmptyHistory once they are all returned
C3_GoBackReversePushOrder == [][RecordsJump /\ PopsLatest]_vars

\* after record_jump(A at 10), record_jump(B at 50): go_back has returned B
\* and A alone is left
C3_Witness ==
    /\ op = "go_back"
    /\ njump = 2
    /\ jumped = [f |-> "f", sel |-> Region(50, 50)]
    /\ Len(last) = 1 /\ eval(last[1].r)[1] = 10 /\ last[1].t = 1

C5_Original ==
    [][(LastModCall /\ CursorInside(mods, cur') /\ OlderOutside(mods) # {})
          => LET k == Min(OlderOutside(mods))
             IN  /\ jumped' = Target(mods[k])
                 /\ mods' = SubSeq(mods, k, Len(mods))]_vars

\* C5, amended: the same, when the most recent entry was recorded in a view
\* that has a file name; and for the edits at 10, 20, 25, 30, 200 in f with the
\* cursor at 205 in f the returned entry is the one at 30
C5_ReturnsFirstOutside ==
    [][/\ (LastModCall /\ mods[1].f # None /\ CursorInside(mods, cur')
               /\ OlderOutside(mods) # {})
            => LET k == Min(OlderOutside(mods))
               IN  /\ jumped' = Target(mods[k])
                   /\ mods' = SubSeq(mods, k, Len(mods))
       /\ (LastModCall /\ cur' = Caret("f", 205) /\ Len(mods) = 5
               /\ \A k \in 1..5 : mods[k].f = "f"
               /\ <<eval(mods[5].r)[1], eval(mods[4].r)[1], eval(mods[3].r)[1], eval(mods[2].r)[1], eval(mods[1].r)[1]>>
                      = <<10, 20, 25, 30, 200>>)
            => jumped' = [f |-> "f", sel |-> Region(30, 30)]]_vars

\* the documented scenario has run: the entry at 30 was returned and the
\* history holds 30, 25, 20, 10
C5_Witness ==
    /\ op = "go_back_to_last_modification"
    /\ cur = Caret("f", 205)
    /\ nmod = 5
    /\ jumped = [f |-> "f", sel |-> Region(30, 30)]
    /\ Len(mods) = 4
    /\ \A k \in 1..4 : mods[k].f = "f" /\ mods[k].t = 5 - k
    /\ <<eval(mods[1].r)[1], eval(mods[2].r)[1], eval(mods[3].r)[1], eval(mods[4].r)[1]>> = <<30, 25, 20, 10>>

\* C6 as claimed: cursor inside the starting entry's area: the starting entry
\* is re-inserted at the front and returned; cursor outside: the first older
\* entry outside the area (the boundary entry) is returned
C6_Original ==
    [][(LastModCall /\ mods[1].f # None /\ OlderOutside(mods) # {})
          => IF CursorInside(mods, cur')
             THEN mods'[1] = mods[1] /\ jumped' = Target(mods[1])
             ELSE jumped' = Target(mods[Min(OlderOutside(mods))])]_vars

\* the entry the scan of the older entries stops at: the first one outside the
\* starting entry's area, or else the oldest
ScanStop(ms) == IF OlderOutside(ms) = {} THEN Len(ms) ELSE Min(OlderOutside(ms))

\* C6, amended: for a starting entry with a file name, the call returns the
\* starting entry, re-inserted at the front in place of the run, when the
\* cursor is outside the starting entry's area or no older entry exists; with
\* the cursor inside the area it re-inserts nothing and returns the entry the
\* scan stops at
C6_CollapsedWhenOutside ==
    [][(LastModCall /\ mods[1].f # None)
          => IF Len(mods) = 1
             THEN jumped' = Target(mods[1]) /\ mods' = mods
             ELSE IF ~CursorInside(mods, cur')
             THEN /\ jumped' = Target(mods[1])
                  /\ mods' = <<mods[1]>> \o SubSeq(mods, ScanStop(mods), Len(mods))
             ELSE /\ jumped' = Target(mods[ScanStop(mods)])
                  /\ mods' = SubSeq(mods, ScanStop(mods), Len(mods))]_vars

\* from a cursor outside its area the starting entry (stamp 4) was returned and
\* re-inserted in front of the boundary entry, the run between them removed
C6_Witness ==
    /\ op = "go_back_to_last_modification"
    /\ cur = Caret("f", 205)
    /\ Len(mods) = 2
    /\ mods[1].t = 4 /\ eval(mods[1].r)[1] = 10 /\ mods[1].f = "f"
    /\ mods[2].t = 1 /\ eval(mods[2].r)[1] = 200
    /\ jumped = [f |-> "f", sel |-> Region(10, 10)]

\* C7: the modification-history never holds more than 100 entries; an edit
\* places its entry at index 0 and drops the entries beyond the 100th
C7_ModsAtMost100 ==
    /\ [](Len(mods) <= 100)
    /\ [][(op' = "on_modified" /\ Len(cur'.sel) > 0)
             => /\ Target(mods'[1]) = [f |-> cur'.f, sel |-> cur'.sel[1]]
                /\ Len(mods') = (IF Len(mods) < 100 THEN Len(mods) + 1 ELSE 100)
                /\ \A k \in 2..Len(mods') : mods'[k] = mods[k - 1]]_vars

\* the 101st edit in a row: the history holds edits 101 down to 2, the first
\* edit is dropped
C7_Witness ==
    /\ op = "on_modified"
    /\ Len(mods) = 100
    /\ mods[1].t = 101
    /\ mods[100].t = 2

\* C8: the jump-history is ordered oldest first and the modification-history
\* most recent first, by the time of the push
C8_PushOrder ==
    /\ \A k \in 1..Len(last) - 1 : last[k].t < last[k + 1].t
    /\ \A k \in 1..Len(mods) - 1 : mods[k].t > mods[k + 1].t

\* go_back_to_last_modification has removed a run and re-inserted the starting
\* entry, with two jumps recorded
C8_Witness ==
    /\ op = "go_back_to_last_modification"
    /\ Len(last) = 2
    /\ Len(mods) = 2
    /\ mods[1].t = 3 /\ mods[2].t = 1
    /\ jumped = Target(mods[1])

(***************************************************************************)
(* The properties of the on_load continuation                              *)
(***************************************************************************)
Runs(id) == Cardinality({k \in 1..Len(fired) : fired[k].id = id})
Registered(id) == Cardinality({k \in 1..Len(callbacks) : callbacks[k].id = id})

\* C9: a continuation runs exactly once and is then off the callback list,
\* also when it raised: it never runs a second time, it is registered until it
\* runs, and one that is still on the list has not run because the load event
\* of its file is still to come, so that it runs when that event is dispatched
C9_RunsExactlyOnce ==
    /\ \A id \in 1..ncb :
           /\ Runs(id) <= 1
           /\ Runs(id) = 1 => Registered(id) = 0
           /\ Runs(id) = 0 => Registered(id) = 1
    /\ \A k \in 1..Len(callbacks) : views[callbacks[k].f] = "loading"

\* C10: a continuation never runs while its own view is still loading
C10_RunsAfterOwnLoad ==
    \A k \in 1..Len(fired) : ~fired[k].early


(***************************************************************************)
(* The properties of the rebuild worker and of the symbol cache            *)
(***************************************************************************)
\* the request went past RebuildTags.run into build_ctags
ReachesBuild == req.has_dirs \/ req.file # NoPath \/ Len(folders) > 0

\* C1: at most one build_ctags worker executes at any time; a rebuild_tags
\* request that reaches build_ctags while a worker is in flight gets the status
\* 'Already running CTags!', starts no worker, queues nothing on the main
\* thread and leaves the running worker, its flag and the index files as
\* they are; a worker only ever starts in the step of a request made while
\* none is in flight.
C1_AtMostOneRebuild ==
    /\ [](Cardinality(Active) <= 1)
    /\ [][(RebuildTags /\ Active # {} /\ ReachesBuild')
            => /\ status' = "Already running CTags!"
               /\ UNCHANGED <<running, threads, timeouts, tagfiles, nbuilds, tags_cache,
                              ctags_list, dialog>>]_vars
    /\ [][Active' \ Active # {}
            => op' = "rebuild_tags" /\ Active = {} /\ Cardinality(Active') = 1]_vars

\* a request was rejected while the worker was in the middle of a build
C1_Witness ==
    /\ op = "rebuild_tags"
    /\ status = "Already running CTags!"
    /\ \E t \in Threads : Active = {t} /\ threads[t].pc = "ctags"
    /\ running = 1

\* C2: a symbol query made when no rebuild is in flight, none has failed and
\* every callback the rebuilds scheduled on the main thread has run, and
\* which returns symbols of the index file it resolved, returns them as the
\* last rebuild wrote them and not as they were before it.
C2_NoStaleAfterRebuild ==
    (/\ lastQuery # NoQuery
     /\ lastQuery.quiet
     /\ lastQuery.tags.index = lastQuery.disk.index)
        => lastQuery.tags.build = lastQuery.disk.build

\* a step of worker t out of the except clauses of build_ctags
FailureHandled(t) == threads[t].pc = "failed" /\ threads'[t].pc # "failed"

\* C11: when ctags.build_ctags fails for a path, the error message is shown to
\* the user, the worker builds no later path and goes on to release the flag,
\* and the callbacks queued for the paths built before stay queued until the
\* main thread runs them
C11_FailFastReported ==
    /\ [][\A t \in Threads :
              FailureHandled(t)
                  => /\ dialog' = "error_message"
                     /\ threads'[t].pc = "finally"
                     /\ UNCHANGED <<tagfiles, nbuilds, timeouts>>]_vars
    /\ [][\A t \in Threads :
              (threads[t].pc = "finally" /\ threads'[t] # threads[t])
                  => running' = 0 /\ threads'[t] = Idle]_vars
    /\ [][timeouts' = timeouts
              \/ (timeouts # <<>> /\ timeouts' = Tail(timeouts))
              \/ (Len(timeouts') > Len(timeouts)
                     /\ SubSeq(timeouts', 1, Len(timeouts)) = timeouts)]_vars

(***************************************************************************)
(* The properties of the lookup and listing commands                       *)
(***************************************************************************)
\* a step of one of the commands whose is_enabled is check_if_building
QueryCommand == ShowSymbols \/ NavigateToDefinition \/ SearchForDefinition

\* C12 as claimed: a lookup or listing command issued while a rebuild is in
\* flight is executed, it is not turned away
C12_Original ==
    [][(running = 1 /\ QueryCommand) => status' # "Please wait while tags are built"]_vars

\* C12, amended: a rebuild in flight excludes the lookup and listing commands
\* too: issued while the flag is set they only show 'Please wait while tags
\* are built' and change nothing; issued while no rebuild is in flight they
\* are executed in the step of the call
C12_QueriesWaitForRebuild ==
    /\ [][(running = 1 /\ QueryCommand)
            => /\ status' = "Please wait while tags are built"
               /\ UNCHANGED <<tags_cache, lastQuery, lookup, last, mods, views, callbacks,
                              running, threads, timeouts, tagfiles>>]_vars
    /\ [][(running = 0 /\ QueryCommand)
            => /\ status' # "Please wait while tags are built"
               /\ (op' = "navigate_to_definition" /\ Len(cur'.sel) > 0)
                     => lookup'.view = cur' /\ lookup'.symbol \in Symbols
               /\ (op' = "search_for_definition") => lookup'.input
               /\ (op' = "show_symbols" /\ status' = "")
                     => lastQuery' # NoQuery /\ lastQuery'.file \in SourceFiles]_vars

\* a lookup was turned away while the worker was building
C12_Witness ==
    /\ op = "navigate_to_definition"
    /\ status = "Please wait while tags are built"
    /\ \E t \in Threads : threads[t].pc = "ctags"
    /\ running = 1

\* a step taken by the code of a worker thread, not by the main thread
WorkerStep == \E t \in Threads : threads[t].pc # "idle" /\ threads'[t] # threads[t]

\* C13: what the rebuild does to the user interface and to the shared state
\* (status messages, the error dialog, the index-cache, the cached
\* autocomplete list) is done by the main thread, never in a step of the worker
C13_WorkerEffectsOnMainThread ==
    [][(status' # status \/ dialog' # dialog \/ tags_cache' # tags_cache
           \/ ctags_list' # ctags_list) => ~WorkerStep]_vars

\* the directories above the path p, p's own directory first: stated on the
\* path, without the walk
IsAbove(d, p) ==
    \/ d = Root /\ Len(p) > 1 /\ p[1] = Sep
    \/ Len(d) < Len(p) /\ SubSeq(p, 1, Len(d)) = d /\ p[Len(d) + 1] = Sep
IndexedAbove(p) == {d \in Dirs : IsAbove(d, p) /\ tagfiles[d] > 0}
NearestIndex(p) ==
    IF p = NoPath \/ IndexedAbove(p) = {} THEN NoPath
    ELSE join(CHOOSE d \in IndexedAbove(p) : \A e \in IndexedAbove(p) : Len(e) <= Len(d),
              tag_file)

\* source files in each directory of the tree, and no source file
ResolveFiles ==
    {NoPath, FileG, <<Sep, "p", Sep, "h", ".", "c">>, <<Sep, "r", ".", "c">>}

\* a step of a lookup command that got as far as resolving the index file
ResolvingStep == op' \in {"navigate_to_definition", "on_done"}

\* C14: find_tags_relative_to returns the index file of the nearest directory
\* above the source file, its own first, that holds a tag_file which is not a
\* directory, and nothing when there is none or no file name; the lookup
\* command then reports that no tags file was found, looks nothing up, jumps
\* nowhere and pushes nothing
C14_NearestIndexOrNone ==
    /\ [][\A f \in ResolveFiles :
              find_tags_relative_to(f, tag_file) = NearestIndex(f)]_vars
    /\ [][ResolvingStep =>
              IF NearestIndex(file_name(cur')) = NoPath
              THEN /\ status' = "Can't find any relevant tags file"
                   /\ lookup'.scan = <<>> /\ lookup'.source = NoPath /\ lookup'.panel = <<>>
                   /\ jumped' = NoJump
                   /\ UNCHANGED <<last, njump, mods, views, callbacks>>
              ELSE /\ status' # "Can't find any relevant tags file"
                   /\ (op' = "on_done" \/ Len(cur'.sel) > 0)
                         => lookup'.scan[1] = NearestIndex(file_name(cur'))]_vars

\* a lookup from /p/a/g.c skipped the directory /p/a/t, found nothing in /p and
\* resolved the index file /t
C14_Witness ==
    /\ op = "navigate_to_definition"
    /\ file_name(cur) = FileG
    /\ tagfiles[DirPA] = -1 /\ tagfiles[DirP] = 0 /\ tagfiles[Root] = 1
    /\ lookup.scan # <<>>
    /\ lookup.scan[1] = join(Root, tag_file)
    /\ lookup.source = join(Root, tag_file)

\* the paths of the list l that exist and define the symbol, by position
Defining(l, symbol) ==
    {k \in 1..Len(l) : l[k] # <<>> /\ exists(l[k]) /\ get_tags_dict(l[k], symbol) # <<>>}

\* C15: a lookup takes its result from the first path, in the order of
\* discovery, that exists and yields a non-empty result; so two lookups of the
\* same symbol from the same view take it from the same index file
C15_FirstInDiscoveryOrder ==
    /\ [][(lookup' # lookup /\ lookup'.source # NoPath)
             => /\ Defining(lookup'.scan, lookup'.symbol) # {}
                /\ lookup'.source = lookup'.scan[Min(Defining(lookup'.scan, lookup'.symbol))]]_vars
    /\ [][(lookup'.source # NoPath /\ lookup.source # NoPath /\ lookup'.symbol = lookup.symbol
              /\ lookup'.view = lookup.view)
             => lookup'.source = lookup.source]_vars

(***************************************************************************)
(* The properties of the tag-path resolution                               *)
(***************************************************************************)
\* the regions that follow_tag_path took from find_source: the matches of the
\* scope elements and the match of the pattern
Used ==
    {found.regions[k] : k \in 2..Len(found.regions)}
        \cup (IF found.pattern_region = NoneRegion THEN {} ELSE {found.pattern_region})

\* C16: the tag-path resolution returns an offset and never raises, whatever
\* the buffer, the tag path and the pattern, an empty buffer included
C16_AlwaysReturnsOffset ==
    op = "follow_tag_path" => ~found.raised

\* C17: in the buffer of the nested markers, with the tag path of method bar
\* in class Foo and the pattern TARGET, the offset returned lies in the body
\* of method bar, not at the TARGET outside the class
C17_InsideInnermostScope ==
    (op = "follow_tag_path" /\ buffer = ExampleText /\ found.tag_path = ExamplePath
        /\ found.pattern = TARGET)
        => ~found.raised /\ found.result \in BarBody

\* C19: every match used by the resolution begins outside the comments and
\* strings, also when a match in a comment ends at the end of the buffer
C19_MatchesOutsideComments ==
    op = "follow_tag_path"
        => \A r \in Used : ~view_match_selector(buffer, r.a, COMMENT_STRING)

\* C20: the offset returned is the one before the line of the pattern's
\* match; without such a match the furthest offset of a match of a scope
\* element; 0 when nothing matched; and always within 0..size
C20_OffsetWithinBuffer ==
    (op = "follow_tag_path" /\ ~found.raised)
        => /\ found.pattern_region # NoneRegion => found.result = found.pattern_region.a - 1
           /\ (found.pattern_region = NoneRegion /\ Len(found.regions) > 1)
                 => found.result = Max({found.regions[k].a : k \in 2..Len(found.regions)})
           /\ (found.pattern_region = NoneRegion /\ Len(found.regions) = 1)
                 => found.result = 0
           /\ found.result \in 0..size(buffer)

\* C18: go_back on an empty jump-history reports 'JumpBack buffer empty',
\* jumps nowhere, opens no file and leaves the jump-history and the
\* modification-history as they are
C18_EmptyHistoryReported ==
    [][(op' = "go_back" /\ last = <<>>)
          => /\ status' = "JumpBack buffer empty"
             /\ jumped' = NoJump
             /\ UNCHANGED <<last, mods, views, callbacks>>]_vars

\* go_back was called with no jump recorded and two edits in the
\* modification-history
C18_Witness ==
    /\ op = "go_back"
    /\ status = "JumpBack buffer empty"
    /\ last = <<>>
    /\ njump = 0
    /\ Len(mods) = 2
    /\ Len(cur.sel) > 0

(***************************************************************************)
(* The jump-history of the go-to-definition commands                       *)
(***************************************************************************)
\* a step of a go-to-definition command or of its panel, and one in which
\* scroll_to_tag was called
DefinitionStep == op' \in {"navigate_to_definition", "on_done", "on_select"}
Navigates == DefinitionStep /\ (jumped' # NoJump \/ callbacks' # callbacks)

\* C21: a go-to-definition that navigates pushes exactly one entry, the file
\* and selection of the view it started from, on top of the jump-history; one
\* that does not navigate (cancelled, nothing found) pushes nothing; go_back
\* returns to the entry on top
C21_JumpRecordsOrigin ==
    /\ [][Navigates
            => /\ Len(last') = Len(last) + 1
               /\ SubSeq(last', 1, Len(last)) = last
               /\ Target(last'[Len(last')]) = [f |-> cur'.f, sel |-> cur'.sel[1]]
               /\ UNCHANGED mods]_vars
    /\ [][(DefinitionStep /\ ~Navigates) => UNCHANGED <<last, mods>>]_vars
    /\ [][(op' = "go_back" /\ last # <<>>)
            => /\ jumped' = Target(last[Len(last)])
               /\ last' = SubSeq(last, 1, Len(last) - 1)]_vars

\* a definition chosen in the panel was jumped to from /p/a/g.c at 10, and
\* that origin is the one entry of the jump-history
C21_Witness ==
    /\ op = "on_select"
    /\ jumped = [f |-> "f", sel |-> Region(20, 20)]
    /\ Len(last) = 1
    /\ Target(last[1]) = [f |-> "g", sel |-> Region(10, 10)]

(***************************************************************************)
(* The candidate set of alternate_tags_paths                               *)
(***************************************************************************)
\* for the base index file base: the extra index files next to it, the
\* entries of its search-paths file, and the paths in the project folders
ExtraNextTo(base) ==
    {normpath(join(dirname(base), extra_tag_files[k])) : k \in 1..Len(extra_tag_files)}
FromSearchPathsFile(base) ==
    IF exists(base \o <<"_search_paths">>)
    THEN {disk.lines[k] : k \in 1..Len(disk.lines)} \ {<<>>}
    ELSE {}
FromFolders == {folder_paths(folders)[k] : k \in 1..Len(folder_paths(folders))}

\* C22: the candidate set of a lookup that found a base index holds every
\* existing extra index file next to the base index, with or without a
\* search-paths file; it holds paths of the project folders only if the
\* search-paths file and the extra index files gave no existing path; and it
\* holds existing paths only
C22_CandidateSet ==
    lookup.scan # <<>>
        => LET base == lookup.scan[1]
               cand == alternate_tags_paths(lookup.view, base)
               yielded == {q \in FromSearchPathsFile(base) \cup ExtraNextTo(base) : exists(q)}
           IN  /\ \A q \in ExtraNextTo(base) : exists(q) => q \in cand
               /\ (cand \cap FromFolders # {}) => yielded = {}
               /\ \A q \in cand : exists(q)


(***************************************************************************)
(* C23: the busy flag is always released. Every rebuild that was accepted  *)
(* resets the running flag in the end, whether ctags succeeded, failed     *)
(* with a reported error or the handler raised itself; a rebuild requested *)
(* while the flag is clear and with something to build is accepted; and    *)
(* the flag is never set while no worker is running.                       *)
(***************************************************************************)
Buildable(r) == r.has_dirs \/ r.file # NoPath \/ Len(folders) > 0

C23_BusyFlagReleased ==
    /\ (running = 1) ~> (running = 0)
    /\ [](running = 1 <=> Active # {})
    /\ [][(op' = "rebuild_tags" /\ running = 0 /\ Buildable(req'))
            => (running' = 1 /\ Active' # {} /\ status' = "" /\ nruns' = nruns + 1)]_vars

\* a second rebuild was accepted after the first one ended with a traceback
C23_Witness == nruns = 2 /\ running = 1 /\ Active # {} /\ dialog = "traceback"


(***************************************************************************)
(* C24: tag-path resolution terminates for every buffer, tag_path and      *)
(* pattern. Every call of find_with_scope returns; every iteration of its  *)
(* loop that goes on to the next one has moved start_pos forward, also     *)
(* when the match it skipped is empty; and the inner loop of               *)
(* follow_tag_path makes at most two iterations for each element of the    *)
(* tag_path.                                                               *)
(***************************************************************************)
Ancestors(tag_path) ==
    IF Len(tag_path) > 2 THEN SubSeq(tag_path, 2, Len(tag_path) - 1) ELSE <<>>

C24_ResolutionTerminates ==
    /\ (frame.pc = "loop") ~> (frame.pc = "returned")
    /\ [][(frame.pc = "loop" /\ frame'.pc = "loop" /\ frame'.iters # frame.iters)
            => frame'.start_pos > frame.start_pos]_vars
    /\ [](\A tag_path \in TagPaths :
             LET its == follow_path_iterations(buffer, Ancestors(tag_path), <<Region(0, 0)>>, 0)
             IN  \A k \in DOMAIN its : its[k] <= 2)


(***************************************************************************)
(* C25: a show_symbols request always terminates, whatever the index holds *)
(* and whatever is cached. A request that was issued ends; one that found  *)
(* no symbols has reported it when it ends; and a request of type 'multi'  *)
(* re-issues itself fewer than MaxNesting times.                           *)
(***************************************************************************)
NoSymbols == "No symbols found **FOR CURRENT FILE**; Try Rebuild?"

C25_ShowSymbolsTerminates ==
    /\ (listing.pc = "issued") ~> (listing.pc = "ended")
    /\ [](listing.depth < MaxNesting)
    /\ []((listing.pc = "ended" /\ listing.tags = 0
              /\ find_tags_relative_to(listing.file, tag_file) # NoPath)
            => (status = NoSymbols /\ ~listing.panel))

=============================================================================
